---------------------------- MODULE Spec2Model ----------------------------
(***************************************************************************)
(* Model of src/stream_audio.py: the playback coordination engine of the   *)
(* Google Cast audio streamer.                                             *)
(*                                                                         *)
(* Every HTTP request runs on a thread of its own (Flask's threaded        *)
(* development server); a thread is modelled by a record th[h] holding the *)
(* operation it serves, its position in the code (pc, named after the      *)
(* source line it is about to execute) and its local variables.  The       *)
(* generator stream_audio() runs on the thread that serves GET /stream.    *)
(*                                                                         *)
(* The receiver (pychromecast) and the file system are the environment:    *)
(* a receiver call may succeed or raise, a status read may return any      *)
(* player state, files may appear in and disappear from MUSIC_FOLDER.      *)
(***************************************************************************)
EXTENDS Naturals, Integers, Sequences, FiniteSets, TLC

(***************************************************************************)
(* Bounds of the model.                                                    *)
(***************************************************************************)
NumThreads == 2      \* request threads that may be serving at once
MaxFiles == 3        \* MP3 files that may exist in MUSIC_FOLDER
FileChunks == 2      \* 4096-byte chunks in every file
NumDevices == 2      \* cast devices on the network
PollCeiling == 2     \* polls of play()'s confirmation loop (timeout / sleep)

(***************************************************************************)
(* Program constants.                                                      *)
(***************************************************************************)
DEFAULT_VOLUME == 5
RETRIES == 5
MIN_VOLUME == 1
MAX_VOLUME == 100

Threads == 1 .. NumThreads
Files == 1 .. MaxFiles
Devices == 1 .. NumDevices
None == 0

\* Values of /volume/<int:value> that are tried: both edges of the range.
VolumeInputs == {0, 1, 100, 101}

\* media_controller.status.player_state as the receiver may report it.
PlayerStates == {"UNKNOWN", "IDLE", "BUFFERING", "PLAYING", "PAUSED"}

(***************************************************************************)
(* Device names.  A name is a sequence of letters (small numbers);          *)
(* add_cast accepts a device when the wanted name is a substring of its    *)
(* friendly name.  DEFAULT_DEVICE is the one-letter name <<1>>.  Device 1   *)
(* is called <<2>>; device d > 1 is called <<1, d>>, so the default name    *)
(* is part of every device's name but the first, and the name <<2>> is     *)
(* part of the names of devices 1 and 2.                                   *)
(***************************************************************************)
DEFAULT_DEVICE == <<1>>
FriendlyName(d) == IF d = 1 THEN <<2>> ELSE <<1, d>>
\* device_name of /play/<device_name> and /connect/<device_name>; None when absent
RequestNames == {None, 1}
NameOf(nm) == IF nm = None THEN <<>> ELSE <<2>>

IsSubstring(sub, s) ==
    \E i \in 0 .. (Len(s) - Len(sub)) :
        \A k \in 1 .. Len(sub) : s[i + k] = sub[k]

VARIABLES
    is_paused,           \* line 38
    pause_event,         \* line 39: threading.Event, TRUE when set
    restart_event,       \* line 40
    chromecast,          \* line 41: None or the device connected to
    media_controller,    \* line 42: None or the controller of a device
    current_volume,      \* line 43
    lock,                \* line 44: None when free, else the holding thread
    current_file_index,  \* line 45
    streaming_started,   \* line 46
    music,               \* the .mp3 entries of MUSIC_FOLDER
    th,                  \* the request threads
    gh                   \* history of the commands served (no program state)

vars == <<is_paused, pause_event, restart_event, chromecast, media_controller,
          current_volume, lock, current_file_index, streaming_started, music,
          th, gh>>

(***************************************************************************)
(* get_mp3_files(): the .mp3 entries of MUSIC_FOLDER, sorted.  A file is    *)
(* named by a number, and the order of the numbers is that of the paths.   *)
(***************************************************************************)
RECURSIVE SortedSeq(_)
SortedSeq(S) ==
    IF S = {} THEN <<>>
    ELSE LET m == CHOOSE x \in S : \A y \in S : x <= y
         IN <<m>> \o SortedSeq(S \ {m})

get_mp3_files == SortedSeq(music)

(***************************************************************************)
(* A request thread.                                                       *)
(*   op     the operation served ("idle": none)                            *)
(*   pc     the line about to be executed                                  *)
(*   name   device_name argument                                           *)
(*   value  volume argument (value of volume(), volume_percent of          *)
(*          set_volume())                                                  *)
(*   files  global_mp3_files of stream_audio(), mp3_files_list of status() *)
(*   n      len(mp3_files_list) of next() and previous(), which use        *)
(*          nothing else of the list                                       *)
(*   tmp    current_file_index as read by a read-modify-write statement    *)
(*   cur    the index current_file was resolved at (stream_audio)          *)
(*   pos    chunks already read from the open file                         *)
(*   brk    how stream_audio left its inner loop                           *)
(*   found  listener.found_device                                          *)
(*   att    attempt of set_volume(); polls done by play()                  *)
(*   thr    threading.Thread objects this call has started                 *)
(*   ret    the result: status of the response, or how the generator ended *)
(*   idx    file_index of the response                                     *)
(***************************************************************************)
IdleThread ==
    [op |-> "idle", pc |-> "idle", name |-> None, value |-> 0, files |-> <<>>,
     n |-> 0, tmp |-> 0, cur |-> 0, pos |-> 0, brk |-> "none", found |-> None,
     att |-> 0, thr |-> 0, ret |-> "none", idx |-> 0]

Begin(op, pc) == [IdleThread EXCEPT !.op = op, !.pc = pc]

\* The response is built: only the result is kept.
Return(t, ret) ==
    [IdleThread EXCEPT !.op = t.op, !.pc = "done", !.ret = ret,
                       !.value = t.value, !.thr = t.thr]

(***************************************************************************)
(* History variable.  It records what the properties below speak of and    *)
(* is never read by an operation.                                          *)
(*   pause  <<i, who>>: pause() set the Pause Signal at Cursor Position i   *)
(*          while a cursor was in the middle of a file; who is the thread  *)
(*          of the resume() that followed (None: not yet).  <<-1, None>>    *)
(*          when there is no such pause, or play/next/previous ran since.  *)
(*   sel    the Cursor Position at which next()/previous() set the Restart *)
(*          Signal with one cursor running and no other command since;     *)
(*          -1 when none.                                                  *)
(*   i0, ops, by   the run of next()/previous() calls ("n"/"p") served one  *)
(*          after the other with nothing else running: i0 is the Cursor    *)
(*          Position before the first, by the thread of the call in        *)
(*          progress (None: between calls).                                *)
(*   played TRUE when the run follows a play() directly.                   *)
(*   cmd    TRUE when one of play/pause/resume/next/previous has left its  *)
(*          locked section.                                                *)
(***************************************************************************)
NoHistory ==
    [pause |-> <<-1, None>>, sel |-> -1, i0 |-> 0, ops |-> <<>>, by |-> None,
     played |-> FALSE, cmd |-> FALSE]

Init ==
    /\ is_paused = TRUE
    /\ pause_event = FALSE
    /\ restart_event = FALSE
    /\ chromecast = None
    /\ media_controller = None
    /\ current_volume = DEFAULT_VOLUME
    /\ lock = None
    /\ current_file_index = 0
    /\ streaming_started = FALSE
    /\ music \in SUBSET Files
    /\ th = [h \in Threads |-> IdleThread]
    /\ gh = NoHistory


(***************************************************************************)
(* Shorthands.                                                             *)
(***************************************************************************)
flags == <<is_paused, pause_event, restart_event>>
receiver == <<chromecast, media_controller, current_volume>>

Set(h, r) == th' = [th EXCEPT ![h] = r]
Goto(h, pc) == th' = [th EXCEPT ![h].pc = pc]

OthersIdle(h) == \A k \in Threads \ {h} : th[k].op = "idle"

\* A generator of stream_audio() that is being iterated.
ActiveCursor(t) == t.op = "stream" /\ t.pc # "done"
\* ... and is inside the read loop of lines 304-317, no signal observed.
Reading(t) == t.op = "stream" /\ t.pc \in {"s305", "s308", "s313", "s317"}
\* ... with a part of the file emitted, a part still to read, and the pause
\* check of line 305 as its next statement but one at most.
MidFile(t) ==
    /\ t.op = "stream" /\ t.pc \in {"s305", "s317"}
    /\ t.pos >= 1 /\ t.pos < FileChunks

(***************************************************************************)
(* The history when thread h starts serving op.                            *)
(***************************************************************************)
GhBegin(h, op) ==
    LET alone == op \in {"play", "next", "previous"} /\ OthersIdle(h)
        run == op \in {"next", "previous"} /\ alone
        \* a run of MaxFiles calls is complete: the next call starts a new one
        fresh == Len(gh.ops) >= MaxFiles \/ (gh.ops = <<>> /\ ~gh.played)
    IN [pause |-> IF op \in {"play", "next", "previous"} THEN <<-1, None>>
                  ELSE IF op = "resume" /\ gh.pause[1] # -1 /\ gh.pause[2] = None
                       THEN <<gh.pause[1], h>>
                       ELSE gh.pause,
        sel |-> -1,
        i0 |-> IF run THEN (IF fresh THEN current_file_index ELSE gh.i0) ELSE 0,
        ops |-> IF run /\ ~fresh THEN gh.ops ELSE <<>>,
        by |-> IF alone THEN h ELSE None,
        played |-> run /\ ~fresh /\ gh.played,
        cmd |-> gh.cmd]

\* The history when a call of next() ("n") or previous() ("p") returns.
GhNavDone(h, o) ==
    IF gh.by = h
    THEN [gh EXCEPT !.ops = Append(gh.ops, o), !.by = None]
    ELSE gh

\* The history when play() returns: a run of next()/previous() may follow.
GhPlayDone(h, ok) ==
    IF gh.by = h
    THEN [gh EXCEPT !.by = None, !.played = ok, !.i0 = current_file_index,
                    !.ops = <<>>]
    ELSE gh

\* The files of MUSIC_FOLDER change: the run of calls ends.
GhFiles == [gh EXCEPT !.i0 = 0, !.ops = <<>>, !.by = None, !.played = FALSE]

(***************************************************************************)
(* The environment: files appear in and disappear from MUSIC_FOLDER.       *)
(***************************************************************************)
AddFile(f) ==
    /\ f \notin music
    /\ music' = music \cup {f}
    /\ gh' = GhFiles
    /\ UNCHANGED <<flags, receiver, lock, current_file_index, streaming_started, th>>

RemoveFile(f) ==
    /\ f \in music
    /\ music' = music \ {f}
    /\ gh' = GhFiles
    /\ UNCHANGED <<flags, receiver, lock, current_file_index, streaming_started, th>>

(***************************************************************************)
(* The response has been sent: the thread is free again.                   *)
(***************************************************************************)
Finish(h) ==
    /\ th[h].pc = "done"
    /\ Set(h, IdleThread)
    /\ gh' = IF th[h].op = "resume" /\ gh.pause[2] = h
             THEN [gh EXCEPT !.pause = <<-1, None>>] ELSE gh
    /\ UNCHANGED <<flags, receiver, lock, current_file_index, streaming_started, music>>

(***************************************************************************)
(* next(), lines 572-600, and previous(), lines 539-569.                   *)
(***************************************************************************)
\* line 585 without its modulus
NextIndexNoWrap(i, n) == i + 1
\* line 585
NextIndex(i, n) == (i + 1) % n
\* lines 552-554 without their modulus
PreviousIndexNoWrap(i, n) == i - 1
\* lines 552-554
PreviousIndex(i, n) == (i - 1 + n) % n

NavStep(o, i, n) == IF o = "next" THEN NextIndex(i, n) ELSE PreviousIndex(i, n)

\* lines 580-583 and 547-550: the playlist is fetched; "No MP3 files found"
Nav580(h, o) ==
    /\ th[h].op = "idle"
    /\ o \in {"next", "previous"}
    /\ IF get_mp3_files = <<>>
       THEN Set(h, Return(Begin(o, "n580"), "failed_nofiles"))
       ELSE Set(h, [Begin(o, "n585r") EXCEPT !.n = Len(get_mp3_files)])
    /\ gh' = IF get_mp3_files = <<>> THEN GhBegin(h, "other") ELSE GhBegin(h, o)
    /\ UNCHANGED <<flags, receiver, lock, current_file_index, streaming_started, music>>

\* lines 585 and 552: the right-hand side reads current_file_index ...
Nav585r(h) ==
    /\ th[h].pc = "n585r"
    /\ Set(h, [th[h] EXCEPT !.pc = "n585w", !.tmp = current_file_index])
    /\ UNCHANGED <<flags, receiver, lock, current_file_index, streaming_started, music, gh>>

\* ... and the result is stored: no lock is held
Nav585w(h) ==
    /\ th[h].pc = "n585w"
    /\ current_file_index' = NavStep(th[h].op, th[h].tmp, th[h].n)
    /\ Goto(h, "n588")
    /\ UNCHANGED <<flags, receiver, lock, streaming_started, music, gh>>

\* lines 588 and 557: with lock
Nav588(h) ==
    /\ th[h].pc = "n588"
    /\ lock = None
    /\ lock' = h
    /\ Goto(h, "n589")
    /\ UNCHANGED <<flags, receiver, current_file_index, streaming_started, music, gh>>

\* lines 589 and 558
Nav589(h) ==
    /\ th[h].pc = "n589"
    /\ is_paused' = FALSE
    /\ Goto(h, "n590")
    /\ UNCHANGED <<pause_event, restart_event, receiver, lock, current_file_index,
                   streaming_started, music, gh>>

\* lines 590 and 559
Nav590(h) ==
    /\ th[h].pc = "n590"
    /\ pause_event' = FALSE
    /\ Goto(h, "n591")
    /\ UNCHANGED <<is_paused, restart_event, receiver, lock, current_file_index,
                   streaming_started, music, gh>>

\* lines 591 and 560: restart_event.set(), and the lock is released
Nav591(h) ==
    /\ th[h].pc = "n591"
    /\ restart_event' = TRUE
    /\ lock' = None
    /\ Goto(h, "n593")
    /\ gh' = [gh EXCEPT !.cmd = TRUE, !.sel =
                IF /\ \A k \in Threads \ {h} : th[k].op \in {"idle", "stream"}
                   /\ Cardinality({k \in Threads : ActiveCursor(th[k])}) = 1
                   /\ \E k \in Threads : Reading(th[k])
                THEN current_file_index ELSE -1]
    /\ UNCHANGED <<is_paused, pause_event, receiver, current_file_index,
                   streaming_started, music>>

\* lines 593-600 and 562-569: the receiver is told to stop and to load the
\* stream again (errors are logged), and current_file_index is read once
\* more for the response
Nav593(h) ==
    /\ th[h].pc = "n593"
    /\ Set(h, [Return(th[h], "success") EXCEPT !.idx = current_file_index,
                   !.tmp = th[h].tmp, !.n = th[h].n])
    /\ gh' = GhNavDone(h, IF th[h].op = "next" THEN "n" ELSE "p")
    /\ UNCHANGED <<flags, receiver, lock, current_file_index, streaming_started, music>>

NavOp(h) ==
    \/ \E o \in {"next", "previous"} : Nav580(h, o)
    \/ Nav585r(h) \/ Nav585w(h) \/ Nav588(h) \/ Nav589(h) \/ Nav590(h)
    \/ Nav591(h) \/ Nav593(h)

(***************************************************************************)
(* pause(), lines 438-461.                                                 *)
(***************************************************************************)
\* line 447: the request is being served
BeginPause(h) ==
    /\ th[h].op = "idle"
    /\ Set(h, Begin("pause", "a449"))
    /\ gh' = GhBegin(h, "pause")
    /\ UNCHANGED <<flags, receiver, lock, current_file_index, streaming_started, music>>

\* line 449: with lock
Pause449(h) ==
    /\ th[h].pc = "a449"
    /\ lock = None
    /\ lock' = h
    /\ Goto(h, "a450")
    /\ UNCHANGED <<flags, receiver, current_file_index, streaming_started, music, gh>>

\* line 450 left out
Pause450NoFlag(h) ==
    /\ th[h].pc = "a450"
    /\ Goto(h, "a451")
    /\ UNCHANGED <<flags, receiver, lock, current_file_index, streaming_started,
                   music, gh>>

\* line 450
Pause450(h) ==
    /\ th[h].pc = "a450"
    /\ is_paused' = TRUE
    /\ Goto(h, "a451")
    /\ UNCHANGED <<pause_event, restart_event, receiver, lock, current_file_index,
                   streaming_started, music, gh>>

\* line 451: pause_event.set(), and the lock is released
Pause451(h) ==
    /\ th[h].pc = "a451"
    /\ pause_event' = TRUE
    /\ lock' = None
    /\ Goto(h, "a454")
    /\ gh' = [gh EXCEPT !.cmd = TRUE, !.pause =
                IF /\ \E k \in Threads : MidFile(th[k])
                   /\ \A k \in Threads : th[k].op \notin {"play", "next", "previous"}
                THEN <<current_file_index, None>> ELSE <<-1, None>>]
    /\ UNCHANGED <<is_paused, restart_event, receiver, current_file_index,
                   streaming_started, music>>

\* lines 454-461: the receiver is told to pause (errors are logged)
Pause454(h) ==
    /\ th[h].pc = "a454"
    /\ Set(h, Return(th[h], "paused"))
    /\ UNCHANGED <<flags, receiver, lock, current_file_index, streaming_started, music, gh>>

PauseOp(h) ==
    BeginPause(h) \/ Pause449(h) \/ Pause450(h) \/ Pause451(h) \/ Pause454(h)

(***************************************************************************)
(* resume(), lines 464-504.                                                *)
(***************************************************************************)
\* line 473
BeginResume(h) ==
    /\ th[h].op = "idle"
    /\ Set(h, Begin("resume", "r475"))
    /\ gh' = GhBegin(h, "resume")
    /\ UNCHANGED <<flags, receiver, lock, current_file_index, streaming_started, music>>

\* line 475: with lock
Resume475(h) ==
    /\ th[h].pc = "r475"
    /\ lock = None
    /\ lock' = h
    /\ Goto(h, "r476")
    /\ UNCHANGED <<flags, receiver, current_file_index, streaming_started, music, gh>>

\* line 476
Resume476(h) ==
    /\ th[h].pc = "r476"
    /\ is_paused' = FALSE
    /\ Goto(h, "r477")
    /\ UNCHANGED <<pause_event, restart_event, receiver, lock, current_file_index,
                   streaming_started, music, gh>>

\* line 477: pause_event.clear(), and the lock is released
Resume477(h) ==
    /\ th[h].pc = "r477"
    /\ pause_event' = FALSE
    /\ lock' = None
    /\ Goto(h, "r480")
    /\ gh' = [gh EXCEPT !.cmd = TRUE]
    /\ UNCHANGED <<is_paused, restart_event, receiver, current_file_index,
                   streaming_started, music>>

\* line 480: if not streaming_started
Resume480(h) ==
    /\ th[h].pc = "r480"
    /\ Goto(h, IF streaming_started THEN "r487" ELSE "r481")
    /\ UNCHANGED <<flags, receiver, lock, current_file_index, streaming_started, music, gh>>

\* lines 481-483: streaming_started = True, and a thread is started on
\* stream_audio.  stream_audio is a generator function (it yields at line
\* 317): the thread's call of it builds a generator object that nothing
\* iterates, so no statement of its body runs and the thread ends.
Resume481(h) ==
    /\ th[h].pc = "r481"
    /\ streaming_started' = TRUE
    /\ Set(h, [th[h] EXCEPT !.pc = "r487", !.thr = @ + 1])
    /\ UNCHANGED <<flags, receiver, lock, current_file_index, music, gh>>

\* lines 487-504: the receiver is told to play, or to load the stream when
\* it is idle (errors are logged)
Resume487(h) ==
    /\ th[h].pc = "r487"
    /\ Set(h, Return(th[h], "resumed"))
    /\ UNCHANGED <<flags, receiver, lock, current_file_index, streaming_started, music, gh>>

ResumeOp(h) ==
    \/ BeginResume(h) \/ Resume475(h) \/ Resume476(h) \/ Resume477(h)
    \/ Resume480(h) \/ Resume481(h) \/ Resume487(h)

(***************************************************************************)
(* status(), lines 507-523.                                                *)
(***************************************************************************)
\* line 515
Status515(h) ==
    /\ th[h].op = "idle"
    /\ Set(h, [Begin("status", "st516") EXCEPT !.files = get_mp3_files])
    /\ gh' = GhBegin(h, "status")
    /\ UNCHANGED <<flags, receiver, lock, current_file_index, streaming_started, music>>

\* lines 516-523: mp3_files_list[current_file_index] raises IndexError when
\* the index is not one of the list
Status516(h) ==
    /\ th[h].pc = "st516"
    /\ Set(h, IF th[h].files = <<>> \/ current_file_index < Len(th[h].files)
              THEN [Return(th[h], "ok") EXCEPT !.idx = current_file_index]
              ELSE Return(th[h], "raised"))
    /\ UNCHANGED <<flags, receiver, lock, current_file_index, streaming_started, music, gh>>

StatusOp(h) == Status515(h) \/ Status516(h)

(***************************************************************************)
(* find_chromecast(device_name), lines 104-201, and set_volume(), lines    *)
(* 204-243.  They are called by play() (line 395), connect() (line 616),   *)
(* stream_audio() (line 288) and volume() (line 709); the caller is th.op. *)
(***************************************************************************)
\* The name the listener looks for, lines 127-131.
Wanted(nm) == IF nm = None THEN DEFAULT_DEVICE ELSE NameOf(nm)

\* lines 127-131: the device is kept when its name holds the wanted one
Accepts(nm, d) == IsSubstring(Wanted(nm), FriendlyName(d))

\* The history when a call that ran alone returns without a run to follow.
GhEnd(h) == IF gh.by = h THEN [gh EXCEPT !.by = None] ELSE gh

\* The caller's thread once find_chromecast() has returned ok:
\* play(), lines 395-401; connect(), lines 616-622; stream_audio(), 288-292.
AfterFind(t, ok) ==
    LET u == [t EXCEPT !.found = None, !.att = 0, !.value = 0]
    IN CASE t.op = "play" ->
              IF ok THEN [u EXCEPT !.pc = "p401"] ELSE Return(u, "failed_notfound")
         [] t.op = "connect" ->
              Return(u, IF ok THEN "connected" ELSE "failed_notfound")
         [] OTHER ->
              IF ok THEN [u EXCEPT !.pc = "s294"] ELSE Return(u, "ended")

\* find_chromecast() returns ok and connect() keeps the lock
FindReturnKeepsLock(h, ok) ==
    /\ Set(h, AfterFind(th[h], ok))
    /\ lock' = lock
    /\ gh' = IF AfterFind(th[h], ok).pc = "done" THEN GhEnd(h) ELSE gh

\* find_chromecast() returns ok; connect() leaves its with block, line 615
FindReturn(h, ok) ==
    /\ Set(h, AfterFind(th[h], ok))
    /\ lock' = IF th[h].op = "connect" THEN None ELSE lock
    /\ gh' = IF AfterFind(th[h], ok).pc = "done" THEN GhEnd(h) ELSE gh

\* set_volume() returns ok: to volume(), lines 709-715, which leaves its
\* with block, or to find_chromecast(), lines 186-191
SetVolumeReturn(h, ok) ==
    IF th[h].op = "volume"
    THEN /\ Set(h, Return(th[h], IF ok THEN "success" ELSE "failed_error"))
         /\ lock' = None
         /\ gh' = gh
    ELSE FindReturn(h, ok)

\* line 146: create_zeroconf() may raise OSError (lines 193-195)
Find146(h) ==
    /\ th[h].pc = "fc146"
    /\ \/ /\ Set(h, [th[h] EXCEPT !.pc = "fc154", !.found = None])
          /\ UNCHANGED <<lock, gh>>
       \/ FindReturn(h, FALSE)
    /\ UNCHANGED <<flags, receiver, current_file_index, streaming_started, music>>

\* lines 121-131: the browser announces device d to the listener of a scan
\* that has not been stopped yet (line 159)
AddCast(h, d) ==
    /\ th[h].pc \in {"fc154", "fc159"}
    /\ Set(h, [th[h] EXCEPT !.found = IF Accepts(th[h].name, d) THEN d ELSE @])
    /\ UNCHANGED <<flags, receiver, lock, current_file_index, streaming_started, music, gh>>

\* lines 154-157: the loop ends when a device was found, or after 5 s
Find154(h) ==
    /\ th[h].pc = "fc154"
    /\ Goto(h, "fc159")
    /\ UNCHANGED <<flags, receiver, lock, current_file_index, streaming_started, music, gh>>

\* lines 159-167: stop_discovery(); no device found: return False
Find159(h) ==
    /\ th[h].pc = "fc159"
    /\ IF th[h].found = None
       THEN FindReturn(h, FALSE)
       ELSE Goto(h, "fc171") /\ UNCHANGED <<lock, gh>>
    /\ UNCHANGED <<flags, receiver, current_file_index, streaming_started, music>>

\* lines 171-179: chromecast = get_chromecast_from_host(...), which may raise
Find171(h) ==
    /\ th[h].pc = "fc171"
    /\ \/ /\ chromecast' = th[h].found
          /\ Goto(h, "fc180")
          /\ UNCHANGED <<lock, gh>>
       \/ FindReturn(h, FALSE) /\ UNCHANGED chromecast
    /\ UNCHANGED <<flags, media_controller, current_volume, current_file_index,
                   streaming_started, music>>

\* line 180: chromecast.wait(), which may raise
Find180(h) ==
    /\ th[h].pc = "fc180"
    /\ \/ Goto(h, "fc183") /\ UNCHANGED <<lock, gh>>
       \/ FindReturn(h, FALSE)
    /\ UNCHANGED <<flags, receiver, current_file_index, streaming_started, music>>

\* line 183: media_controller = chromecast.media_controller
Find183(h) ==
    /\ th[h].pc = "fc183"
    /\ media_controller' = chromecast
    /\ Goto(h, "fc186")
    /\ UNCHANGED <<flags, chromecast, current_volume, lock, current_file_index,
                   streaming_started, music, gh>>

\* line 186: set_volume(current_volume)
Find186(h) ==
    /\ th[h].pc = "fc186"
    /\ Set(h, [th[h] EXCEPT !.pc = "sv217", !.value = current_volume])
    /\ UNCHANGED <<flags, receiver, lock, current_file_index, streaming_started, music, gh>>

\* lines 217-225: no Chromecast connected: return False
SetVolume217(h) ==
    /\ th[h].pc = "sv217"
    /\ IF chromecast = None
       THEN SetVolumeReturn(h, FALSE)
       ELSE Set(h, [th[h] EXCEPT !.pc = "sv225", !.att = 0]) /\ UNCHANGED <<lock, gh>>
    /\ UNCHANGED <<flags, receiver, current_file_index, streaming_started, music>>

\* line 225 taken as never exhausted
ExhaustedNever(att) == FALSE
\* line 225: for attempt in range(retries)
Exhausted(att) == att >= RETRIES

\* lines 225-243: one attempt.  The receiver's status is there and the
\* volume is set ("set"), or it is not there yet ("notready"), or the call
\* raises ("raise"); after the last attempt: return False
SetVolume225(h) ==
    /\ th[h].pc = "sv225"
    /\ IF Exhausted(th[h].att)
       THEN SetVolumeReturn(h, FALSE) /\ UNCHANGED current_volume
       ELSE \E outcome \in {"set", "notready", "raise"} :
              CASE outcome = "set" ->
                     current_volume' = th[h].value /\ SetVolumeReturn(h, TRUE)
                [] outcome = "raise" /\ th[h].att >= RETRIES - 1 ->
                     SetVolumeReturn(h, FALSE) /\ UNCHANGED current_volume
                [] OTHER ->
                     /\ Set(h, [th[h] EXCEPT !.att = @ + 1])
                     /\ UNCHANGED <<current_volume, lock, gh>>
    /\ UNCHANGED <<flags, chromecast, media_controller, current_file_index,
                   streaming_started, music>>

FindSteps(h) ==
    \/ Find146(h) \/ Find154(h) \/ Find159(h) \/ Find171(h) \/ Find180(h)
    \/ Find183(h) \/ Find186(h) \/ SetVolume217(h) \/ SetVolume225(h)
    \/ \E d \in Devices : AddCast(h, d)

(***************************************************************************)
(* play(device_name), lines 374-435.                                       *)
(***************************************************************************)
\* lines 388-391: "No MP3 files found in music/".  Of mp3_files_list only
\* the length is used later, in the response, which is not modelled.
Play388(h, nm) ==
    /\ th[h].op = "idle"
    /\ IF get_mp3_files = <<>>
       THEN Set(h, Return(Begin("play", "p388"), "failed_nofiles"))
       ELSE Set(h, [Begin("play", "p394") EXCEPT !.name = nm])
    /\ gh' = IF get_mp3_files = <<>> THEN GhBegin(h, "other") ELSE GhBegin(h, "play")
    /\ UNCHANGED <<flags, receiver, lock, current_file_index, streaming_started, music>>

\* lines 394-395: connect if not already connected
Play394(h) ==
    /\ th[h].pc = "p394"
    /\ Goto(h, IF chromecast = None THEN "fc146" ELSE "p401")
    /\ UNCHANGED <<flags, receiver, lock, current_file_index, streaming_started, music, gh>>

\* line 401: with lock
Play401(h) ==
    /\ th[h].pc = "p401"
    /\ lock = None
    /\ lock' = h
    /\ Goto(h, "p402")
    /\ UNCHANGED <<flags, receiver, current_file_index, streaming_started, music, gh>>

\* line 402
Play402(h) ==
    /\ th[h].pc = "p402"
    /\ is_paused' = FALSE
    /\ Goto(h, "p403")
    /\ UNCHANGED <<pause_event, restart_event, receiver, lock, current_file_index,
                   streaming_started, music, gh>>

\* lines 403-404: pause_event.clear().  Line 404 assigns a local variable:
\* play() does not declare streaming_started global (line 385), so the
\* module's streaming_started keeps its value.
Play403(h) ==
    /\ th[h].pc = "p403"
    /\ pause_event' = FALSE
    /\ Goto(h, "p405")
    /\ UNCHANGED <<is_paused, restart_event, receiver, lock, current_file_index,
                   streaming_started, music, gh>>

\* line 405
Play405(h) ==
    /\ th[h].pc = "p405"
    /\ current_file_index' = 0
    /\ Goto(h, "p406")
    /\ UNCHANGED <<flags, receiver, lock, streaming_started, music, gh>>

\* line 406: restart_event.clear(), and the lock is released
Play406(h) ==
    /\ th[h].pc = "p406"
    /\ restart_event' = FALSE
    /\ lock' = None
    /\ Goto(h, "p409")
    /\ gh' = [gh EXCEPT !.cmd = TRUE]
    /\ UNCHANGED <<is_paused, pause_event, receiver, current_file_index,
                   streaming_started, music>>

\* lines 409-418: the receiver is told to stop (errors are ignored), and a
\* thread is started on stream_audio: see Resume481, no statement of
\* stream_audio runs on it
Play409(h) ==
    /\ th[h].pc = "p409"
    /\ Set(h, [th[h] EXCEPT !.pc = "p421", !.thr = @ + 1])
    /\ UNCHANGED <<flags, receiver, lock, current_file_index, streaming_started, music, gh>>

\* lines 421-422 and 246-270: play_stream_on_chromecast() is False without
\* a controller or when play_media() raises; play() then reports "playing"
Play421(h) ==
    /\ th[h].pc = "p421"
    /\ \/ /\ Set(h, Return(th[h], "playing"))
          /\ gh' = GhPlayDone(h, TRUE)
       \/ /\ media_controller # None /\ chromecast # None
          /\ Set(h, [th[h] EXCEPT !.pc = "p427", !.att = 0])
          /\ gh' = gh
    /\ UNCHANGED <<flags, receiver, lock, current_file_index, streaming_started, music>>

\* line 427 taken as always true
PollsLeftAlways(att) == TRUE
\* line 427: while time.time() - start_time < timeout
PollsLeft(att) == att < PollCeiling

\* lines 425-435: one poll of the player state each second, for 30 s
Play427(h) ==
    /\ th[h].pc = "p427"
    /\ IF ~PollsLeft(th[h].att)
       THEN Set(h, Return(th[h], "failed_timeout")) /\ gh' = GhPlayDone(h, TRUE)
       ELSE \E state \in PlayerStates :
              IF state = "PLAYING"
              THEN Set(h, Return(th[h], "playing")) /\ gh' = GhPlayDone(h, TRUE)
              ELSE Set(h, [th[h] EXCEPT !.att = @ + 1]) /\ gh' = gh
    /\ UNCHANGED <<flags, receiver, lock, current_file_index, streaming_started, music>>

PlaySteps(h) ==
    \/ Play394(h) \/ Play401(h) \/ Play402(h) \/ Play403(h) \/ Play405(h)
    \/ Play406(h) \/ Play409(h) \/ Play421(h) \/ Play427(h)

PlayOp(h) == (\E nm \in RequestNames : Play388(h, nm)) \/ PlaySteps(h)

(***************************************************************************)
(* connect(device_name), lines 603-622.                                    *)
(***************************************************************************)
\* line 614
BeginConnect(h, nm) ==
    /\ th[h].op = "idle"
    /\ Set(h, [Begin("connect", "c615") EXCEPT !.name = nm])
    /\ gh' = GhBegin(h, "connect")
    /\ UNCHANGED <<flags, receiver, lock, current_file_index, streaming_started, music>>

\* lines 615-616: with lock: find_chromecast(device_name)
Connect615(h) ==
    /\ th[h].pc = "c615"
    /\ lock = None
    /\ lock' = h
    /\ Goto(h, "fc146")
    /\ UNCHANGED <<flags, receiver, current_file_index, streaming_started, music, gh>>

ConnectOp(h) == (\E nm \in RequestNames : BeginConnect(h, nm)) \/ Connect615(h)

(***************************************************************************)
(* volume(value), lines 686-715.                                           *)
(***************************************************************************)
\* line 704
\* line 704 without its lower bound
ValidVolumeNoLower(v) == ~(v > MAX_VOLUME)
\* line 704
ValidVolume(v) == ~(v < MIN_VOLUME \/ v > MAX_VOLUME)

\* lines 700-706: "No Chromecast device connected", then "Volume must be
\* between 1 and 100"
Volume700(h, v) ==
    /\ th[h].op = "idle"
    /\ LET t == [Begin("volume", "v708") EXCEPT !.value = v]
       IN Set(h, IF chromecast = None THEN Return(t, "failed_nodevice")
                 ELSE IF ~ValidVolume(v) THEN Return(t, "failed_invalid")
                 ELSE t)
    /\ gh' = GhBegin(h, "volume")
    /\ UNCHANGED <<flags, receiver, lock, current_file_index, streaming_started, music>>

\* lines 708-709: with lock: set_volume(value)
Volume708(h) ==
    /\ th[h].pc = "v708"
    /\ lock = None
    /\ lock' = h
    /\ Goto(h, "sv217")
    /\ UNCHANGED <<flags, receiver, current_file_index, streaming_started, music, gh>>

VolumeOp(h) == (\E v \in VolumeInputs : Volume700(h, v)) \/ Volume708(h)

(***************************************************************************)
(* stream_audio(), lines 273-331, iterated by the response of GET /stream  *)
(* (lines 334-351).  ret tells how the generator ended: "ended" (it         *)
(* returned), "closed" (the consumer closed it at the yield) or "raised".  *)
(***************************************************************************)
\* line 283 taken as never true
NoFilesNever(files) == FALSE
\* line 283: if not global_mp3_files
NoFiles(files) == files = <<>>

\* lines 281-285: the playlist is fetched, once; none: the generator returns
Stream281(h) ==
    /\ th[h].op = "idle"
    /\ IF NoFiles(get_mp3_files)
       THEN Set(h, Return(Begin("stream", "s281"), "ended"))
       ELSE Set(h, [Begin("stream", "s287") EXCEPT !.files = get_mp3_files])
    /\ gh' = GhBegin(h, "stream")
    /\ UNCHANGED <<flags, receiver, lock, current_file_index, streaming_started, music>>

\* lines 287-288
Stream287(h) ==
    /\ th[h].pc = "s287"
    /\ Goto(h, IF chromecast = None THEN "fc146" ELSE "s294")
    /\ UNCHANGED <<flags, receiver, lock, current_file_index, streaming_started, music, gh>>

\* lines 294-297: wait while pause_event is set
Stream294(h) ==
    /\ th[h].pc = "s294"
    /\ ~pause_event
    /\ Goto(h, "s299")
    /\ UNCHANGED <<flags, receiver, lock, current_file_index, streaming_started, music, gh>>

\* line 299: global_mp3_files[current_file_index]; IndexError is not caught
Stream299(h) ==
    /\ th[h].pc = "s299"
    /\ Set(h, IF current_file_index < Len(th[h].files)
              THEN [th[h] EXCEPT !.pc = "s303", !.cur = current_file_index]
              ELSE Return(th[h], "raised"))
    /\ UNCHANGED <<flags, receiver, lock, current_file_index, streaming_started, music, gh>>

\* line 303: open(current_file); a file that is gone raises (lines 318-320)
Stream303(h) ==
    /\ th[h].pc = "s303"
    /\ Set(h, IF th[h].files[th[h].cur + 1] \in music
              THEN [th[h] EXCEPT !.pc = "s305", !.pos = 0, !.brk = "none"]
              ELSE [th[h] EXCEPT !.pc = "s323", !.cur = 0, !.brk = "error"])
    /\ gh' = IF th[h].brk = "restart" THEN [gh EXCEPT !.sel = -1] ELSE gh
    /\ UNCHANGED <<flags, receiver, lock, current_file_index, streaming_started, music>>

\* The thread when the inner loop is left: the file is closed.
Leave(t, why) == [t EXCEPT !.pc = "s323", !.cur = 0, !.pos = 0, !.brk = why]

\* lines 305-307: pause observed: break
Stream305(h) ==
    /\ th[h].pc = "s305"
    /\ Set(h, IF pause_event THEN Leave(th[h], "pause") ELSE [th[h] EXCEPT !.pc = "s308"])
    /\ UNCHANGED <<flags, receiver, lock, current_file_index, streaming_started, music, gh>>

\* line 308: restart observed
Stream308(h) ==
    /\ th[h].pc = "s308"
    /\ Goto(h, IF restart_event THEN "s309" ELSE "s313")
    /\ UNCHANGED <<flags, receiver, lock, current_file_index, streaming_started, music, gh>>

\* lines 309-311: restart_event.clear(); break
Stream309(h) ==
    /\ th[h].pc = "s309"
    /\ restart_event' = FALSE
    /\ Set(h, Leave(th[h], "restart"))
    /\ UNCHANGED <<is_paused, pause_event, receiver, lock, current_file_index,
                   streaming_started, music, gh>>

\* lines 313-315: f.read(4096): a chunk, or nothing at the end of the file,
\* or an error (lines 318-320)
Stream313(h) ==
    /\ th[h].pc = "s313"
    /\ \/ Set(h, IF th[h].pos < FileChunks
                 THEN [th[h] EXCEPT !.pc = "s317", !.pos = @ + 1]
                 ELSE Leave(th[h], "eof"))
       \/ Set(h, Leave(th[h], "error"))
    /\ UNCHANGED <<flags, receiver, lock, current_file_index, streaming_started, music, gh>>

\* line 317: yield data: the consumer takes the chunk and asks for the next,
\* or closes the generator (GeneratorExit)
Stream317(h) ==
    /\ th[h].pc = "s317"
    /\ \/ Goto(h, "s305")
       \/ Set(h, Return(th[h], "closed"))
    /\ UNCHANGED <<flags, receiver, lock, current_file_index, streaming_started, music, gh>>

\* line 323: check if we need to restart
Stream323(h) ==
    /\ th[h].pc = "s323"
    /\ Goto(h, IF restart_event THEN "s324" ELSE "s328r")
    /\ UNCHANGED <<flags, receiver, lock, current_file_index, streaming_started, music, gh>>

\* lines 324-325: restart_event.clear(); continue
Stream324(h) ==
    /\ th[h].pc = "s324"
    /\ restart_event' = FALSE
    /\ Goto(h, "s294")
    /\ UNCHANGED <<is_paused, pause_event, receiver, lock, current_file_index,
                   streaming_started, music, gh>>

\* line 328: the right-hand side reads current_file_index ...
Stream328r(h) ==
    /\ th[h].pc = "s328r"
    /\ Set(h, [th[h] EXCEPT !.pc = "s328w", !.tmp = current_file_index])
    /\ UNCHANGED <<flags, receiver, lock, current_file_index, streaming_started, music, gh>>

\* ... and the result is stored; lines 330-331: the delay between tracks
Stream328w(h) ==
    /\ th[h].pc = "s328w"
    /\ current_file_index' = NextIndex(th[h].tmp, Len(th[h].files))
    /\ Set(h, [th[h] EXCEPT !.pc = "s294", !.tmp = 0])
    /\ UNCHANGED <<flags, receiver, lock, streaming_started, music, gh>>

StreamOp(h) ==
    \/ Stream281(h) \/ Stream287(h) \/ Stream294(h) \/ Stream299(h) \/ Stream303(h)
    \/ Stream305(h) \/ Stream308(h) \/ Stream309(h) \/ Stream313(h) \/ Stream317(h)
    \/ Stream323(h) \/ Stream324(h) \/ Stream328r(h) \/ Stream328w(h)

(***************************************************************************)
(* The program: requests are served by any free thread, at any time.       *)
(***************************************************************************)
Next ==
    \/ \E h \in Threads :
          \/ PlayOp(h) \/ PauseOp(h) \/ ResumeOp(h) \/ NavOp(h) \/ StatusOp(h)
          \/ ConnectOp(h) \/ VolumeOp(h) \/ StreamOp(h) \/ FindSteps(h)
          \/ Finish(h)
    \/ \E f \in Files : AddFile(f) \/ RemoveFile(f)

Spec == Init /\ [][Next]_vars

(***************************************************************************)
(* Parts of the program, explored one at a time.  Each is the program      *)
(* with the requests limited to some operations and threads, so each of    *)
(* its behaviours is one of Spec.  /play and /connect come without a       *)
(* device name where discovery is not what is looked at.                   *)
(***************************************************************************)
\* Commands served one after the other by one thread; the files stay.
NextNav ==
    \/ Play388(1, None) \/ PlaySteps(1) \/ NavOp(1) \/ FindSteps(1) \/ Finish(1)

SpecNav == Init /\ [][NextNav]_vars

\* One thread at most of the others is serving.
OneCommand(h) == \A k \in Threads \ {1, h} : th[k].op = "idle"

\* One consumer of GET /stream (thread 1) and the commands, served one
\* after the other by the other threads; the files stay.
NextCursor ==
    \/ StreamOp(1) \/ FindSteps(1) \/ Finish(1)
    \/ \E h \in Threads \ {1} :
          /\ OneCommand(h)
          /\ \/ Play388(h, None) \/ PlaySteps(h) \/ PauseOp(h) \/ ResumeOp(h)
             \/ NavOp(h) \/ FindSteps(h) \/ Finish(h)

SpecCursor == Init /\ [][NextCursor]_vars

\* One consumer of GET /stream (thread 1), next() and previous() served by
\* the other threads, and files that come and go at the end of the
\* playlist: MUSIC_FOLDER holds the files 1 .. k.
InitFiles == Init /\ \E k \in 0 .. MaxFiles : music = 1 .. k

LastFileChange ==
    \E f \in Files :
        \/ AddFile(f) /\ music = 1 .. (f - 1)
        \/ RemoveFile(f) /\ music = 1 .. f

NextFiles ==
    \/ StreamOp(1) \/ FindSteps(1) \/ Finish(1)
    \/ \E h \in Threads \ {1} : OneCommand(h) /\ (NavOp(h) \/ Finish(h))
    \/ LastFileChange

SpecFiles == InitFiles /\ [][NextFiles]_vars

\* GET /stream, play(), resume() and next()/previous() on every thread; the
\* files stay.
NextStreams ==
    \E h \in Threads :
        \/ StreamOp(h) \/ Play388(h, None) \/ PlaySteps(h) \/ ResumeOp(h)
        \/ NavOp(h) \/ FindSteps(h) \/ Finish(h)

SpecStreams == Init /\ [][NextStreams]_vars

\* The commands on every thread, no consumer of GET /stream; the files stay.
NextCommands ==
    \E h \in Threads :
        \/ Play388(h, None) \/ PlaySteps(h) \/ PauseOp(h) \/ ResumeOp(h)
        \/ NavOp(h) \/ FindSteps(h) \/ Finish(h)

SpecCommands == Init /\ [][NextCommands]_vars

\* connect() and volume() on every thread; the files stay.
NextVolume ==
    \E h \in Threads : VolumeOp(h) \/ ConnectOp(h) \/ FindSteps(h) \/ Finish(h)

SpecVolume == Init /\ [][NextVolume]_vars

\* One call of next() on every thread, all at once; the files stay.
NextNexts ==
    \E h \in Threads :
        \/ Nav580(h, "next") \/ Nav585r(h) \/ Nav585w(h) \/ Nav588(h)
        \/ Nav589(h) \/ Nav590(h) \/ Nav591(h) \/ Nav593(h)

SpecNexts == Init /\ [][NextNexts]_vars

\* Thread h takes the lock: lines 449, 615 and 708.
Acquires(h) == Pause449(h) \/ Connect615(h) \/ Volume708(h)

\* Thread h executes a statement that waits for no lock.
Runs(h) ==
    \/ Pause450(h) \/ Pause451(h) \/ Pause454(h)
    \/ Find146(h) \/ Find154(h) \/ Find159(h) \/ Find171(h) \/ Find180(h)
    \/ Find183(h) \/ Find186(h) \/ SetVolume217(h) \/ SetVolume225(h)

\* pause(), connect() to the default device and volume() with a value out
\* of range or the largest one, on every thread; the files stay.
NextLock ==
    \E h \in Threads :
        \/ BeginPause(h) \/ BeginConnect(h, None)
        \/ (\E v \in {MIN_VOLUME - 1, MAX_VOLUME} : Volume700(h, v))
        \/ Acquires(h) \/ Runs(h) \/ (\E d \in Devices : AddCast(h, d))
        \/ Finish(h)

\* Every thread keeps running, and a thread that waits for the lock gets it
\* when it is free again and again.
SpecLockFair ==
    /\ Init /\ [][NextLock]_vars
    /\ \A h \in Threads : WF_vars(Runs(h)) /\ SF_vars(Acquires(h))

\* next(), previous() and status(), served one after the other, and files
\* that come and go at the end of the playlist.
NextStatus ==
    \/ \E h \in Threads :
          OthersIdle(h) /\ (NavOp(h) \/ StatusOp(h) \/ Finish(h))
    \/ LastFileChange

SpecStatus == InitFiles /\ [][NextStatus]_vars

\* One consumer of GET /stream (thread 1) and no command at all: the
\* signals stay clear, so lines 306, 309-310 and 324-325 are never reached.
\* The files stay.
PlaybackRuns ==
    \/ Stream281(1) \/ Stream287(1) \/ Stream294(1) \/ Stream299(1)
    \/ Stream303(1) \/ Stream305(1) \/ Stream308(1) \/ Stream313(1)
    \/ Stream317(1) \/ Stream323(1) \/ Stream328r(1) \/ Stream328w(1)
    \/ Find146(1) \/ Find154(1) \/ Find159(1) \/ Find171(1) \/ Find180(1)
    \/ Find183(1) \/ Find186(1) \/ SetVolume217(1) \/ SetVolume225(1)

NextPlayback == PlaybackRuns \/ \E d \in Devices : AddCast(1, d)

\* The read of line 313 gives a chunk of the file at index j.
ReadsChunkOf(j) ==
    Stream313(1) /\ th[1].cur = j /\ th'[1].pc = "s317"

\* The generator's thread keeps running while it is iterated (the devices'
\* announcements do not hold it up: the scan of lines 152-157 ends after
\* 5 s), and a file that is read again and again is not in error for ever.
SpecPlaybackFair ==
    /\ Init /\ [][NextPlayback]_vars
    /\ WF_vars(PlaybackRuns)
    /\ \A j \in 0 .. (MaxFiles - 1) : SF_vars(ReadsChunkOf(j))

(***************************************************************************)
(*                              Properties                                 *)
(***************************************************************************)

(***************************************************************************)
(* C1.  With a cursor in the middle of a file, pause() followed by         *)
(* resume(), with no play(), next() or previous() in between, leaves the   *)
(* Cursor Position where it was: when resume() has cleared the Pause       *)
(* Signal, current_file_index is what it was when pause() set it.          *)
(* Checked under SpecCursor.                                               *)
(***************************************************************************)
C1_PauseResumeKeepsPosition ==
    \A h \in Threads :
        (th[h].op = "resume" /\ th[h].pc = "r480" /\ gh.pause[2] = h)
            => current_file_index = gh.pause[1]

(***************************************************************************)
(* C2.  After next() or previous() has selected an index and set the       *)
(* Restart Signal, with no other command since, the cursor that observes   *)
(* the signal in its read loop opens the file at the selected index next.  *)
(* Checked under SpecCursor.                                               *)
(***************************************************************************)
C2_RestartOpensSelected ==
    \A h \in Threads :
        (th[h].op = "stream" /\ th[h].pc = "s303" /\ th[h].brk = "restart"
            /\ gh.sel # -1)
            => th[h].cur = gh.sel

(***************************************************************************)
(* C3.  At most one execution of the Streaming Cursor is active at a time. *)
(* Checked under SpecStreams.                                              *)
(***************************************************************************)
C3_AtMostOneCursor ==
    Cardinality({h \in Threads : ActiveCursor(th[h])}) <= 1

(***************************************************************************)
(* C4.  Once play() has started its streaming thread, streaming_started is *)
(* true (so that resume() finds it set at line 480 and starts none).   *)
(* Checked under SpecCommands.                                             *)
(***************************************************************************)
C4_StartedAfterPlay ==
    \A h \in Threads :
        (th[h].op = "play" /\ th[h].thr >= 1) => streaming_started

(***************************************************************************)
(* C5.  resume() that finds streaming_started false has done what play()   *)
(* does by the time it has started its thread: there are files, a          *)
(* Receiver Session exists, Cursor Position is 0 and both signals are      *)
(* clear.  Checked under SpecCommands.                                     *)
(***************************************************************************)
C5_ResumeActsAsPlay ==
    \A h \in Threads :
        (th[h].op = "resume" /\ th[h].pc = "r487" /\ th[h].thr = 1)
            => /\ music # {}
               /\ chromecast # None
               /\ current_file_index = 0
               /\ ~pause_event
               /\ ~restart_event

\* The calls of next() and previous() since the run began (lines 572-600 and
\* 539-569) are all o ("n" or "p"), and the last of them has returned.
RunOf(o) ==
    /\ gh.by = None
    /\ gh.ops # <<>>
    /\ \A j \in 1..Len(gh.ops) : gh.ops[j] = o

(***************************************************************************)
(* C6.  With the files unchanged and N of them, next() moves the Cursor    *)
(* Position from i to (i + 1) mod N and answers with it; k calls in a row  *)
(* move it from i to (i + k) mod N, so N calls bring it back to i; after   *)
(* play() with three files, the calls end at 1, 2 and 0.                   *)
(* Checked under SpecNav.                                                  *)
(***************************************************************************)
C6_NextAdvances ==
    LET N == Cardinality(music)
        k == Len(gh.ops)
    IN /\ \A h \in Threads :
            (th[h].op = "next" /\ th[h].pc = "done" /\ th[h].ret = "success")
                => /\ th[h].n = N
                   /\ th[h].tmp \in 0..(N - 1)
                   /\ th[h].idx = IF th[h].tmp = N - 1 THEN 0 ELSE th[h].tmp + 1
                   /\ current_file_index = th[h].idx
       /\ RunOf("n") => current_file_index = (gh.i0 + k) % N
       /\ (RunOf("n") /\ k = N) => current_file_index = gh.i0
       /\ (RunOf("n") /\ gh.played /\ N = 3) => current_file_index = <<1, 2, 0>>[k]

\* play(), then three calls of next() with three files: the last one wraps.
C6_Witness ==
    /\ Cardinality(music) = 3
    /\ RunOf("n") /\ gh.played /\ Len(gh.ops) = 3
    /\ current_file_index = 0
    /\ \E h \in Threads :
           /\ th[h].op = "next" /\ th[h].pc = "done" /\ th[h].ret = "success"
           /\ th[h].tmp = 2 /\ th[h].idx = 0

(***************************************************************************)
(* C7.  With the files unchanged and N of them, previous() undoes next()   *)
(* and next() undoes previous(); previous() at 0 gives N - 1 and the       *)
(* Cursor Position is never negative.  Checked under SpecNav.              *)
(***************************************************************************)
C7_PreviousInvertsNext ==
    LET N == Cardinality(music)
        k == Len(gh.ops)
    IN /\ current_file_index >= 0
       /\ \A h \in Threads :
            (th[h].op = "previous" /\ th[h].pc = "done" /\ th[h].ret = "success")
                => /\ th[h].n = N
                   /\ th[h].tmp \in 0..(N - 1)
                   /\ th[h].idx = IF th[h].tmp = 0 THEN N - 1 ELSE th[h].tmp - 1
                   /\ current_file_index = th[h].idx
       \* the last two calls of the run are one of each: the position is the
       \* one the calls before them left
       /\ (gh.by = None /\ k >= 2 /\ gh.ops[k - 1] # gh.ops[k])
            => LET fwd == Cardinality({j \in 1..(k - 2) : gh.ops[j] = "n"})
                   back == (k - 2) - fwd
               IN current_file_index = (gh.i0 + fwd + back * (N - 1)) % N

\* next() at the last of several files, then previous() at 0.
C7_Witness ==
    /\ Cardinality(music) >= 2
    /\ gh.by = None /\ gh.ops = <<"n", "p">>
    /\ gh.i0 = Cardinality(music) - 1
    /\ current_file_index = gh.i0
    /\ \E h \in Threads :
           /\ th[h].op = "previous" /\ th[h].pc = "done" /\ th[h].ret = "success"
           /\ th[h].tmp = 0 /\ th[h].idx = Cardinality(music) - 1

(***************************************************************************)
(* C8.  When play() releases the lock (line 406), is_paused is false, the  *)
(* Pause Signal and the Restart Signal are clear and the Cursor Position   *)
(* is 0.  Checked under SpecCommands.                                      *)
(***************************************************************************)
C8_PlayReleasesReset ==
    [][\A h \in Threads :
          (th[h].pc = "p406" /\ th'[h].pc = "p409")
              => /\ ~is_paused'
                 /\ ~pause_event'
                 /\ ~restart_event'
                 /\ current_file_index' = 0]_vars

C10_CursorNeverRaises ==
    \A h \in Threads :
        ~(th[h].op = "stream" /\ th[h].pc = "done" /\ th[h].ret = "raised")

(***************************************************************************)
(* C11.  A Streaming Cursor started when MUSIC_FOLDER holds no MP3 file    *)
(* ends at once and without an exception: it emits no chunk and changes    *)
(* neither the Cursor Position, nor a signal or the paused flag, nor the   *)
(* Receiver Session, the volume or the lock.  Checked under SpecFiles.     *)
(***************************************************************************)
C11_EmptyPlaylistEnds ==
    [][\A h \in Threads :
          (th[h].op = "idle" /\ th'[h].op = "stream" /\ music = {})
              => /\ th'[h].pc = "done" /\ th'[h].ret = "ended"
                 /\ th'[h].pos = 0
                 /\ UNCHANGED <<current_file_index, flags, receiver, lock,
                                streaming_started>>]_vars

\* A cursor has ended on an empty folder, with a Receiver Session, the
\* Restart Signal set and a Cursor Position other than 0 left as they were.
C11_Witness ==
    /\ music = {}
    /\ chromecast # None /\ restart_event /\ current_file_index # 0
    /\ \E h \in Threads :
           th[h].op = "stream" /\ th[h].pc = "done" /\ th[h].ret = "ended"

(***************************************************************************)
(* C12.  When find_chromecast() reports failure and there was no Receiver  *)
(* Session before the call, there is none after it.  play() calls          *)
(* find_chromecast() only when there is no session (line 394), so: when    *)
(* play() has answered "Could not find Chromecast device", chromecast is   *)
(* None.  Checked under SpecNav.                                           *)
(***************************************************************************)
C12_FailedConnectLeavesNoSession ==
    \A h \in Threads :
        (th[h].op = "play" /\ th[h].pc = "done" /\ th[h].ret = "failed_notfound")
            => chromecast = None

(***************************************************************************)
(* C14.  When opening or reading the current file fails, the cursor goes   *)
(* on to the next iteration of its outer loop with the Cursor Position     *)
(* unchanged: the step in which a cursor that left its read loop by an     *)
(* error stores line 328's result leaves current_file_index as it was.     *)
(* Checked under SpecCursor.                                               *)
(***************************************************************************)
C14_ErrorKeepsPosition ==
    [][\A h \in Threads :
          (th[h].op = "stream" /\ th[h].brk = "error"
              /\ th[h].pc = "s328w" /\ th'[h].pc # "s328w")
              => current_file_index' = current_file_index]_vars

(***************************************************************************)
(* C15.  The calls of next() are atomic with respect to each other: when   *)
(* NumThreads concurrent calls, begun at Cursor Position 0 with N files    *)
(* and no cursor running, have all returned, the Cursor Position is        *)
(* NumThreads mod N.  Checked under SpecNexts.                             *)
(***************************************************************************)
C15_ConcurrentNextsAllCount ==
    (/\ music # {}
     /\ \A h \in Threads : th[h].op = "next" /\ th[h].pc = "done")
        => current_file_index = NumThreads % Cardinality(music)

(***************************************************************************)
(* C16.  No operation holds the lock while it is inside long-running       *)
(* receiver I/O: the discovery scan (lines 146-159), the connect wait      *)
(* (line 180), the volume retry loop (lines 225-243) or play()'s           *)
(* confirmation polling (lines 425-435).  Checked under SpecVolume.        *)
(***************************************************************************)
C16_NoLockDuringReceiverIO ==
    \A h \in Threads :
        th[h].pc \in {"fc146", "fc154", "fc159", "fc180", "sv225", "p427"}
            => lock # h

(***************************************************************************)
(* C17.  While the Pause Signal is set the Streaming Cursor reads no chunk *)
(* of a file: no step of a cursor that executes the read of line 313 and   *)
(* gets a chunk is taken with pause_event set.                             *)
(* Checked under SpecCursor.                                               *)
(***************************************************************************)
C17_NoReadWhilePaused ==
    [][\A h \in Threads :
          (th[h].op = "stream" /\ th[h].pc = "s313" /\ th'[h].pc = "s317")
              => ~pause_event]_vars

(***************************************************************************)
(* C13.  After play() has pushed the stream URL its confirmation polling   *)
(* ends within the ceiling of polls: every poll either sees the player     *)
(* state PLAYING and play() answers "playing", or is counted; when the     *)
(* ceiling is reached play() answers with the timeout failure; when the    *)
(* push fails play() answers "playing" at once, without a poll; play()     *)
(* never ends by an exception.  Checked under SpecNav.                     *)
(***************************************************************************)
C13_PollingEnds ==
    /\ [](\A h \in Threads :
            /\ th[h].pc = "p427" => th[h].op = "play" /\ th[h].att <= PollCeiling
            /\ (th[h].op = "play" /\ th[h].pc = "done")
                 => th[h].ret \in {"failed_nofiles", "failed_notfound", "playing",
                                   "failed_timeout"})
    /\ [][\A h \in Threads :
            (th[h].pc = "p427" /\ th'[h] # th[h])
                => \/ /\ th[h].att < PollCeiling
                      /\ th'[h].pc = "p427" /\ th'[h].att = th[h].att + 1
                   \/ /\ th[h].att < PollCeiling
                      /\ th'[h].pc = "done" /\ th'[h].ret = "playing"
                   \/ /\ th[h].att = PollCeiling
                      /\ th'[h].pc = "done" /\ th'[h].ret = "failed_timeout"]_vars
    /\ [][\A h \in Threads :
            (th[h].pc = "p421" /\ th'[h] # th[h])
                => \/ th'[h].pc = "done" /\ th'[h].ret = "playing"
                   \/ /\ media_controller # None /\ chromecast # None
                      /\ th'[h].pc = "p427" /\ th'[h].att = 0]_vars

\* play() has answered with the timeout failure.
C13_Witness ==
    \E h \in Threads :
        /\ th[h].op = "play" /\ th[h].pc = "done" /\ th[h].ret = "failed_timeout"
        /\ th[h].thr = 1 /\ media_controller # None

\* The statements of the outer loop of stream_audio(), lines 293-331.
InLoop(t) ==
    /\ t.op = "stream"
    /\ t.pc \in {"s294", "s299", "s303", "s305", "s308", "s313", "s317", "s323",
                 "s328r", "s328w"}

(***************************************************************************)
(* C18.  With no command and both signals clear, a cursor that reaches the *)
(* end of the file at index i stores (i + 1) mod N in the Cursor Position, *)
(* once, and opens the file at that index next; the file it reads is the   *)
(* one at the Cursor Position; it leaves its loop only when its consumer   *)
(* closes it; and it emits chunks of every file again and again for as     *)
(* long as it is consumed.  Checked under SpecPlaybackFair.                *)
(***************************************************************************)
C18_EndOfFileAdvances ==
    /\ [](\A h \in Threads :
            /\ Reading(th[h]) => th[h].cur = current_file_index
            /\ InLoop(th[h]) => current_file_index \in 0 .. (Cardinality(music) - 1)
            /\ th[h].ret # "raised")
    /\ [][\A h \in Threads :
            /\ (th[h].pc = "s313" /\ th'[h].brk = "eof")
                 => th'[h].pc = "s323" /\ UNCHANGED current_file_index
            /\ (th[h].pc = "s323" /\ th[h].brk = "eof") => th'[h].pc = "s328r"
            /\ (th[h].pc = "s328w" /\ th[h].brk = "eof")
                 => /\ th'[h].pc = "s294"
                    /\ current_file_index' =
                         IF current_file_index = Cardinality(music) - 1 THEN 0
                         ELSE current_file_index + 1
            /\ (th[h].pc = "s299" /\ th[h].brk = "eof")
                 => th'[h].pc = "s303" /\ th'[h].cur = current_file_index
            /\ (InLoop(th[h]) /\ th[h].pc # "s328w")
                 => UNCHANGED current_file_index
            /\ (InLoop(th[h]) /\ th'[h].pc = "done") => th'[h].ret = "closed"]_vars
    /\ \A j \in 0 .. (MaxFiles - 1) :
         j < Cardinality(music)
            => \/ []<>(th[1].pc = "s317" /\ th[1].cur = j)
               \/ <>(th[1].pc = "done")

\* The last of three files has been read to its end and the cursor opens
\* the first one again.
C18_Witness ==
    /\ Cardinality(music) = 3
    /\ th[1].op = "stream" /\ th[1].pc = "s303" /\ th[1].brk = "eof"
    /\ th[1].cur = 0 /\ current_file_index = 0

(***************************************************************************)
(* C19.  In every state the Cursor Position is an index of the current     *)
(* playlist (0 when there is no file), also after files were added or      *)
(* removed, and status() resolves the current file name without an         *)
(* exception.  Checked under SpecStatus.                                   *)
(***************************************************************************)
C19_IndexIsValid ==
    /\ IF music = {} THEN current_file_index = 0
       ELSE current_file_index \in 0 .. (Cardinality(music) - 1)
    /\ \A h \in Threads :
           ~(th[h].op = "status" /\ th[h].pc = "done" /\ th[h].ret = "raised")

(***************************************************************************)
(* C20.  set_volume() makes RETRIES attempts at most and then returns: an  *)
(* attempt either applies the volume, stores it in current_volume and      *)
(* returns success, or fails and is counted; failure is returned when the  *)
(* attempts are used up, or at once when there is no Receiver Session;     *)
(* current_volume changes in no other step than the successful attempt.    *)
(* Checked under SpecVolume.                                               *)
(***************************************************************************)
C20_SetVolumeRetries ==
    /\ [](\A h \in Threads : th[h].pc = "sv225" => th[h].att \in 0 .. RETRIES)
    /\ [][\A h \in Threads :
            (th[h].pc = "sv225" /\ th'[h] # th[h])
                => \/ /\ th[h].att < RETRIES
                      /\ th'[h].pc = "sv225" /\ th'[h].att = th[h].att + 1
                      /\ UNCHANGED current_volume
                   \/ /\ th[h].att < RETRIES
                      /\ current_volume' = th[h].value
                      /\ th'[h].pc = "done"
                      /\ th'[h].ret = IF th[h].op = "volume" THEN "success"
                                      ELSE "connected"
                   \/ /\ th[h].att >= RETRIES - 1
                      /\ UNCHANGED current_volume
                      /\ th'[h].pc = "done"
                      /\ th'[h].ret = IF th[h].op = "volume" THEN "failed_error"
                                      ELSE "failed_notfound"]_vars
    /\ [][\A h \in Threads :
            (th[h].pc = "sv217" /\ th'[h] # th[h])
                => /\ UNCHANGED current_volume
                   /\ IF chromecast = None
                      THEN th'[h].pc = "done" /\ th'[h].ret \in {"failed_error",
                                                                "failed_notfound"}
                      ELSE th'[h].pc = "sv225" /\ th'[h].att = 0]_vars
    /\ [][current_volume' # current_volume
            => \E h \in Threads :
                   /\ th[h].pc = "sv225" /\ current_volume' = th[h].value
                   /\ th'[h].ret \in {"success", "connected"}]_vars

\* volume(100) has succeeded, and volume(1) has failed without changing
\* the volume.
C20_Witness ==
    /\ current_volume = MAX_VOLUME
    /\ \E h \in Threads :
           /\ th[h].op = "volume" /\ th[h].pc = "done" /\ th[h].ret = "success"
           /\ th[h].value = MAX_VOLUME
    /\ \E h \in Threads :
           /\ th[h].op = "volume" /\ th[h].pc = "done" /\ th[h].ret = "failed_error"
           /\ th[h].value = MIN_VOLUME

(***************************************************************************)
(* C21.  During one discovery scan the listener keeps the first announced  *)
(* device whose name matches: once found_device is set, no later           *)
(* announcement of the same scan replaces it.  Checked under SpecVolume.   *)
(***************************************************************************)
C21_FirstMatchKept ==
    [][\A h \in Threads :
          (/\ th[h].pc \in {"fc154", "fc159"}
           /\ th[h].found # None
           /\ th'[h].pc \in {"fc154", "fc159"})
              => th'[h].found = th[h].found]_vars

\* A thread is between the two writes of a locked section: lines 402-403,
\* 450-451, 476-477, 558-559 and 589-590.
BetweenWrites == \E h \in Threads : th[h].pc \in {"p403", "a451", "r477", "n590"}

(***************************************************************************)
(* C22.  As stated: in every state after the first of play, pause, resume, *)
(* next and previous has left its locked section, is_paused is true        *)
(* exactly when the Pause Signal is set.  Checked under SpecCommands.      *)
(***************************************************************************)
C22_FlagMatchesSignal ==
    gh.cmd => (is_paused = pause_event)

(***************************************************************************)
(* C22, amended.  In every state in which no command is between the two    *)
(* writes of its locked section (so whenever the lock is free): after the  *)
(* first command has left its locked section is_paused is true exactly     *)
(* when the Pause Signal is set, and before that, with the lock free, the  *)
(* state is the initial one, is_paused true and the Pause Signal clear.    *)
(* Checked under SpecCommands.                                             *)
(***************************************************************************)
C22_FlagMatchesSignalOutside ==
    /\ (gh.cmd /\ ~BetweenWrites) => (is_paused = pause_event)
    /\ (gh.cmd /\ lock = None) => (is_paused = pause_event)
    /\ (~gh.cmd /\ lock = None) => (is_paused /\ ~pause_event)

\* pause() has returned, flag and signal are both set, and a resume() has
\* entered its locked section.
C22_Witness ==
    /\ gh.cmd /\ is_paused /\ pause_event
    /\ \E h \in Threads : th[h].op = "pause" /\ th[h].pc = "done"
    /\ \E h \in Threads : th[h].op = "resume" /\ th[h].pc = "r476" /\ lock = h

=============================================================================
